---- MODULE Spec2Model ----
(***************************************************************************)
(* Model of fetch_japanese_transcript, the core of the Japanese YouTube    *)
(* transcript fetcher, in its two deployment variants:                     *)
(*   cloud_function/main.py            (source tag gcp-cloud-function)     *)
(*   scripts/fetch_japanese_transcript.py (source tag python-transcript-api)*)
(* One behaviour is one invocation.  The two external calls               *)
(* (YouTubeTranscriptApi.list and Transcript.fetch) are the points where   *)
(* the environment chooses an outcome, so they delimit the actions.        *)
(* Strings that the code inspects character by character (language names, *)
(* language codes, caption text) are sequences of one-character strings;   *)
(* strings the code only passes through are TLA+ strings.                  *)
(* A non-ASCII character is written as its code point ("U+65E5").         *)
(* Times are integers in milliseconds.                                     *)
(***************************************************************************)
EXTENDS Integers, Sequences, FiniteSets, TLC

VARIABLES pc, variant, video_id, calls, transcript_list,
          available_transcripts, japanese_transcripts, selected_transcript,
          fetched_transcript, raised, outcome, result

vars == <<pc, variant, video_id, calls, transcript_list,
          available_transcripts, japanese_transcripts, selected_transcript,
          fetched_transcript, raised, outcome, result>>

\* ------------------------------------------------------------------ bounds
MaxCatalog == 2

MaxSnippets == 2

\* ------------------------------------------------------------------ inputs
Variants == {"cloud", "script"}

VideoIds == {"dQw4w9WgXcQ", "abc123"}

S_Japanese == <<"J","a","p","a","n","e","s","e">>

S_JapaneseAuto == S_Japanese \o <<" ","(","a","u","t","o",")">>

S_Nihongo == <<"U+65E5","U+672C","U+8A9E">>

S_English == <<"E","n","g","l","i","s","h">>

S_Javanese == <<"J","a","v","a","n","e","s","e">>

\* Caption tracks the provider may list (Transcript objects of the library).
Descriptors ==
  { [language |-> S_Japanese,     language_code |-> <<"j","a">>,
     is_generated |-> FALSE, is_translatable |-> TRUE],
    [language |-> S_Japanese,     language_code |-> <<"j","a","-","J","P">>,
     is_generated |-> FALSE, is_translatable |-> FALSE],
    [language |-> S_JapaneseAuto, language_code |-> <<"j","a">>,
     is_generated |-> TRUE,  is_translatable |-> TRUE],
    [language |-> S_Nihongo,      language_code |-> <<"j","p">>,
     is_generated |-> TRUE,  is_translatable |-> FALSE],
    [language |-> S_English,      language_code |-> <<"e","n">>,
     is_generated |-> FALSE, is_translatable |-> TRUE],
    [language |-> S_Javanese,     language_code |-> <<"J","A">>,
     is_generated |-> TRUE,  is_translatable |-> TRUE] }

SeqsUpTo(S, n) == UNION { [1..k -> S] : k \in 0..n }

Catalogs == SeqsUpTo(Descriptors, MaxCatalog)

T_Hello == <<" ","h","e","l","l","o","\n">>

T_Partial == <<"[","p","a","r","t","i","a","l","]"," ","h","e","l","l","o">>

T_Music == <<" ","[","m","u","s","i","c","]">>

T_Blank == <<" ","\t"," ">>

\* Snippets a fetched track may hold; the last three lack a field.
Snippets ==
  { [start |-> 0,    duration |-> 2000, text |-> T_Hello],
    [start |-> 5000, duration |-> 5000, text |-> T_Partial],
    [start |-> 2000, duration |-> 1000, text |-> T_Music],
    [start |-> 3000, duration |-> 0,    text |-> T_Blank],
    [duration |-> 1000, text |-> T_Hello],
    [start |-> 1000, text |-> T_Hello],
    [start |-> 1000, duration |-> 1000] }

SnippetSeqs == SeqsUpTo(Snippets, MaxSnippets)

\* Exceptions the provider may raise from list() or fetch().
ProviderErrors ==
  { [type |-> "TranscriptsDisabled", msg |-> "Subtitles are disabled for this video"],
    [type |-> "NoTranscriptFound",   msg |-> "No transcripts were found for any of the requested language codes"],
    [type |-> "ConnectionError",     msg |-> "connection reset"],
    [type |-> "ParseError",          msg |-> "malformed response"] }

NoException == [type |-> "None", msg |-> ""]

NoResult == [returned |-> FALSE]

\* --------------------------------------------------- Python string helpers
ToLower ==
  [A |-> "a", B |-> "b", C |-> "c", D |-> "d", E |-> "e", F |-> "f",
   G |-> "g", H |-> "h", I |-> "i", J |-> "j", K |-> "k", L |-> "l",
   M |-> "m", N |-> "n", O |-> "o", P |-> "p", Q |-> "q", R |-> "r",
   S |-> "s", T |-> "t", U |-> "u", V |-> "v", W |-> "w", X |-> "x",
   Y |-> "y", Z |-> "z"]

\* str.lower()
lower(s) == [i \in 1..Len(s) |-> IF s[i] \in DOMAIN ToLower THEN ToLower[s[i]] ELSE s[i]]

IsSpace(c) == c \in {" ", "\t", "\n", "\r"}

RECURSIVE lstrip(_)
lstrip(s) == IF s # <<>> /\ IsSpace(Head(s)) THEN lstrip(Tail(s)) ELSE s

RECURSIVE rstrip(_)
rstrip(s) == IF s # <<>> /\ IsSpace(s[Len(s)]) THEN rstrip(SubSeq(s, 1, Len(s) - 1)) ELSE s

\* str.strip()
strip(s) == rstrip(lstrip(s))

\* str.startswith / str.endswith
startswith(s, p) == Len(s) >= Len(p) /\ SubSeq(s, 1, Len(p)) = p

endswith(s, p) == Len(s) >= Len(p) /\ SubSeq(s, Len(s) - Len(p) + 1, Len(s)) = p

\* Python's  sub in s  on strings
RECURSIVE In(_, _)
In(sub, s) == IF Len(s) < Len(sub) THEN FALSE
              ELSE startswith(s, sub) \/ In(sub, Tail(s))

\* ------------------------------------------------- catalog loop and select
transcript_info(t) ==
  [language |-> t.language, language_code |-> t.language_code,
   is_generated |-> t.is_generated, is_translatable |-> t.is_translatable]

\* variant of the test that compares the language name without lower()
IsJapaneseTranscriptCaseSensitive(t) ==
  \/ t.language_code = <<"j","a">>
  \/ In(<<"j","a","p","a","n","e","s","e">>, t.language)
  \/ In(<<"U+65E5","U+672C","U+8A9E">>, t.language)

\* the test of lines 37-39
IsJapaneseTranscript(t) ==
  \/ t.language_code = <<"j","a">>
  \/ In(<<"j","a","p","a","n","e","s","e">>, lower(t.language))
  \/ In(<<"U+65E5","U+672C","U+8A9E">>, t.language)

\* for transcript in transcript_list: ... ; a Transcript object is named by
\* its position in the list.
RECURSIVE CollectTranscripts(_, _, _, _)
CollectTranscripts(tl, i, avail, japanese) ==
  IF i > Len(tl) THEN [available_transcripts |-> avail, japanese_transcripts |-> japanese]
  ELSE LET info == transcript_info(tl[i])
       IN CollectTranscripts(tl, i + 1, Append(avail, info),
            IF IsJapaneseTranscript(tl[i])
              THEN Append(japanese, [transcript |-> i, info |-> info])
              ELSE japanese)

\* manual_japanese = [jt for jt in japanese_transcripts if not is_generated]
manual_japanese(japanese) == SelectSeq(japanese, LAMBDA jt : ~jt.info.is_generated)

\* variant of the selection without the preference for manual tracks
SelectTranscriptFirst(japanese) == japanese[1].transcript

\* lines 50-58; only used when japanese is non-empty
SelectTranscript(japanese) ==
  IF manual_japanese(japanese) # <<>>
    THEN manual_japanese(japanese)[1].transcript
    ELSE japanese[1].transcript

Source == IF variant = "cloud" THEN "gcp-cloud-function" ELSE "python-transcript-api"

\* variant of the label without the language code
AllLanguageLabelNoCode(t) == t.language

AllLanguageLabel(t) == t.language \o <<" ", "(">> \o t.language_code \o <<")">>

NoJapaneseResult(avail) ==
  [available |-> FALSE,
   videoId |-> video_id,
   message |-> "No Japanese transcripts available for this video",
   availableLanguages |-> [i \in 1..Len(avail) |-> AllLanguageLabel(avail[i])],
   source |-> Source]

\* -------------------------------------------------------- except clauses
\* variant of the clauses without the final  except Exception
ExceptClauseNoCatchAll(e) ==
  IF e.type = "TranscriptsDisabled" THEN "TranscriptsDisabled"
  ELSE IF e.type = "NoTranscriptFound" THEN "NoTranscriptFound"
  ELSE "None"

\* variant of the clauses with  except Exception  written first
ExceptClauseCatchAllFirst(e) == "Exception"

\* which except clause of lines 106-130 takes the exception
ExceptClause(e) ==
  IF e.type = "TranscriptsDisabled" THEN "TranscriptsDisabled"
  ELSE IF e.type = "NoTranscriptFound" THEN "NoTranscriptFound"
  ELSE "Exception"

DisabledResult ==
  [available |-> FALSE, videoId |-> video_id,
   message |-> "Transcripts are disabled for this video",
   source |-> Source]

\* variant of the NoTranscriptFound dict that lists the collected catalog
NoTranscriptFoundResultWithLanguages(e) ==
  [available |-> FALSE, videoId |-> video_id,
   message |-> "No transcript found: " \o e.msg,
   availableLanguages |-> [i \in 1..Len(available_transcripts) |->
                             available_transcripts[i].language \o <<" ", "(">>
                               \o available_transcripts[i].language_code \o <<")">>],
   source |-> Source]

NoTranscriptFoundResult(e) ==
  [available |-> FALSE, videoId |-> video_id,
   message |-> "No transcript found: " \o e.msg,
   source |-> Source]

GenericErrorResult(e) ==
  IF variant = "cloud"
    THEN [available |-> FALSE, videoId |-> video_id,
          message |-> "Error fetching transcript: " \o e.msg,
          error_type |-> e.type,
          source |-> Source]
    ELSE [available |-> FALSE, videoId |-> video_id,
          message |-> "Error fetching transcript: " \o e.msg,
          source |-> Source]

\* The function leaves through an except clause: it returns that clause's
\* dict, or the exception leaves the function when no clause matches.
Except(e) ==
  /\ raised' = e
  /\ LET clause == ExceptClause(e)
     IN IF clause = "TranscriptsDisabled"
          THEN outcome' = "returned" /\ result' = DisabledResult
        ELSE IF clause = "NoTranscriptFound"
          THEN outcome' = "returned" /\ result' = NoTranscriptFoundResult(e)
        ELSE IF clause = "Exception"
          THEN outcome' = "returned" /\ result' = GenericErrorResult(e)
        ELSE outcome' = "propagated" /\ result' = NoResult
  /\ pc' = "done"

\* ------------------------------------------------------ segment transform
\* first field of the snippet whose access fails (lines 76-79), or "None"
MissingField(snippet) ==
  IF "start" \notin DOMAIN snippet THEN "start"
  ELSE IF "duration" \notin DOMAIN snippet THEN "duration"
  ELSE IF "text" \notin DOMAIN snippet THEN "text"
  ELSE "None"

\* snippet['start'] raises KeyError in the cloud function, snippet.start
\* raises AttributeError in the script
MissingFieldError(field) ==
  IF variant = "cloud"
    THEN [type |-> "KeyError", msg |-> "'" \o field \o "'"]
    ELSE [type |-> "AttributeError", msg |-> "object has no attribute '" \o field \o "'"]

\* variant of the test that drops text with a bracket at either end
KeepTextEitherBracket(text) ==
  text # <<>> /\ ~(startswith(text, <<"[">>) \/ endswith(text, <<"]">>))

\* the test of line 82
KeepText(text) == text # <<>> /\ ~(startswith(text, <<"[">>) /\ endswith(text, <<"]">>))

Segment(snippet) ==
  [start |-> snippet.start, duration |-> snippet.duration,
   end |-> snippet.start + snippet.duration, text |-> strip(snippet.text)]

\* the loop of lines 74-88; stops at the first snippet that raises
RECURSIVE TransformSnippets(_, _)
TransformSnippets(snippets, segments) ==
  IF snippets = <<>> THEN [ok |-> TRUE, segments |-> segments]
  ELSE LET snippet == Head(snippets)
       IN IF MissingField(snippet) # "None"
            THEN [ok |-> FALSE, exc |-> MissingFieldError(MissingField(snippet))]
            ELSE TransformSnippets(Tail(snippets),
                   IF KeepText(strip(snippet.text))
                     THEN Append(segments, Segment(snippet))
                     ELSE segments)

JapaneseLabel(jt) ==
  jt.info.language \o (IF jt.info.is_generated THEN <<" ","(","a","u","t","o",")">>
                       ELSE <<" ","(","m","a","n","u","a","l",")">>)

\* variant of the total that takes the largest end
TotalDurationMaxEnd(segments) ==
  IF segments # <<>>
    THEN LET ends == { segments[i].end : i \in 1..Len(segments) }
         IN CHOOSE m \in ends : \A x \in ends : x <= m
    ELSE 0

\* segments[-1]['end'] if segments else 0
TotalDuration(segments) == IF segments # <<>> THEN segments[Len(segments)].end ELSE 0

FoundResult(segments) ==
  [available |-> TRUE,
   videoId |-> video_id,
   title |-> "Video " \o video_id,
   language |-> transcript_list[selected_transcript].language,
   languageCode |-> transcript_list[selected_transcript].language_code,
   isJapanese |-> TRUE,
   isGenerated |-> transcript_list[selected_transcript].is_generated,
   availableLanguages |-> [i \in 1..Len(japanese_transcripts) |-> JapaneseLabel(japanese_transcripts[i])],
   segments |-> segments,
   totalSegments |-> Len(segments),
   totalDuration |-> TotalDuration(segments),
   source |-> Source]

\* ----------------------------------------------------------------- actions
Init ==
  /\ pc = "start"
  /\ variant \in Variants
  /\ video_id \in VideoIds
  /\ calls = <<>>
  /\ transcript_list = <<>>
  /\ available_transcripts = <<>>
  /\ japanese_transcripts = <<>>
  /\ selected_transcript = 0
  /\ fetched_transcript = <<>>
  /\ raised = NoException
  /\ outcome = "running"
  /\ result = NoResult

\* ytt_api.list(video_id) returns the catalog
ListReturns ==
  /\ pc = "start"
  /\ \E tl \in Catalogs : transcript_list' = tl
  /\ calls' = Append(calls, [op |-> "list", ok |-> TRUE])
  /\ pc' = "listed"
  /\ UNCHANGED <<variant, video_id, available_transcripts, japanese_transcripts,
                 selected_transcript, fetched_transcript, raised, outcome, result>>

\* ytt_api.list(video_id) raises
ListRaises ==
  /\ pc = "start"
  /\ calls' = Append(calls, [op |-> "list", ok |-> FALSE])
  /\ \E e \in ProviderErrors : Except(e)
  /\ UNCHANGED <<variant, video_id, transcript_list, available_transcripts,
                 japanese_transcripts, selected_transcript, fetched_transcript>>

\* lines 23-68: collect, then select a track or return the no-Japanese dict
SelectJapanese ==
  /\ pc = "listed"
  /\ LET c == CollectTranscripts(transcript_list, 1, <<>>, <<>>)
     IN /\ available_transcripts' = c.available_transcripts
        /\ japanese_transcripts' = c.japanese_transcripts
        /\ IF c.japanese_transcripts # <<>>
             THEN /\ selected_transcript' = SelectTranscript(c.japanese_transcripts)
                  /\ pc' = "selected"
                  /\ UNCHANGED <<outcome, result>>
             ELSE /\ selected_transcript' = 0
                  /\ pc' = "done"
                  /\ outcome' = "returned"
                  /\ result' = NoJapaneseResult(c.available_transcripts)
  /\ UNCHANGED <<variant, video_id, calls, transcript_list, fetched_transcript, raised>>

\* selected_transcript.fetch() returns the snippets
FetchReturns ==
  /\ pc = "selected"
  /\ \E s \in SnippetSeqs : fetched_transcript' = s
  /\ calls' = Append(calls, [op |-> "fetch", ok |-> TRUE, transcript |-> selected_transcript])
  /\ pc' = "fetched"
  /\ UNCHANGED <<variant, video_id, transcript_list, available_transcripts,
                 japanese_transcripts, selected_transcript, raised, outcome, result>>

\* variant of a failing fetch that is tried again
FetchRaisesRetry ==
  /\ pc = "selected"
  /\ Len(calls) < 4
  /\ calls' = Append(calls, [op |-> "fetch", ok |-> FALSE, transcript |-> selected_transcript])
  /\ UNCHANGED <<pc, variant, video_id, transcript_list, available_transcripts,
                 japanese_transcripts, selected_transcript, fetched_transcript,
                 raised, outcome, result>>

\* selected_transcript.fetch() raises
FetchRaises ==
  /\ pc = "selected"
  /\ calls' = Append(calls, [op |-> "fetch", ok |-> FALSE, transcript |-> selected_transcript])
  /\ \E e \in ProviderErrors : Except(e)
  /\ UNCHANGED <<variant, video_id, transcript_list, available_transcripts,
                 japanese_transcripts, selected_transcript, fetched_transcript>>

\* lines 73-104: build the segments and return the found dict, or leave
\* through an except clause when a snippet lacks a field
TransformAndReturn ==
  /\ pc = "fetched"
  /\ LET t == TransformSnippets(fetched_transcript, <<>>)
     IN IF t.ok
          THEN /\ result' = FoundResult(t.segments)
               /\ outcome' = "returned"
               /\ pc' = "done"
               /\ UNCHANGED raised
          ELSE Except(t.exc)
  /\ UNCHANGED <<variant, video_id, calls, transcript_list, available_transcripts,
                 japanese_transcripts, selected_transcript, fetched_transcript>>

Next ==
  \/ ListReturns
  \/ ListRaises
  \/ SelectJapanese
  \/ FetchReturns
  \/ FetchRaises
  \/ TransformAndReturn

Spec == Init /\ [][Next]_vars

\* -------------------------------------------------------------- properties
\* Vocabulary of the properties, stated on the inputs the environment chose
\* (transcript_list, fetched_transcript, calls) and on the returned dict.
Done == pc = "done"

Returned == pc = "done" /\ outcome = "returned"

Found == Returned /\ result.available

CatalogRetrieved == Len(calls) >= 1 /\ calls[1].op = "list" /\ calls[1].ok

Min(S) == CHOOSE x \in S : \A y \in S : x <= y

Max(S) == CHOOSE x \in S : \A y \in S : x >= y

HasAt(s, sub, i) == i + Len(sub) - 1 <= Len(s) /\ \A k \in 1..Len(sub) : s[i + k - 1] = sub[k]

IsCandidate(d) ==
  \/ d.language_code = <<"j","a">>
  \/ \E i \in 1..Len(d.language) : HasAt(lower(d.language), <<"j","a","p","a","n","e","s","e">>, i)
  \/ \E i \in 1..Len(d.language) : HasAt(d.language, <<"U+65E5","U+672C","U+8A9E">>, i)

CandidateIdx == { i \in 1..Len(transcript_list) : IsCandidate(transcript_list[i]) }

ManualIdx == { i \in CandidateIdx : ~transcript_list[i].is_generated }

\* position of index i among the indices of S, in increasing order
Rank(S, i) == Cardinality({ j \in S : j <= i })

\* r without its leading and trailing whitespace: from the first to the last
\* character that is not whitespace
Trimmed(r) ==
  LET ns == { k \in 1..Len(r) : ~IsSpace(r[k]) }
  IN IF ns = {} THEN <<>> ELSE SubSeq(r, Min(ns), Max(ns))

Wrapped(t) == t # <<>> /\ t[1] = "[" /\ t[Len(t)] = "]"

WellFormed(sn) == {"start", "duration", "text"} \subseteq DOMAIN sn

KeptIdx ==
  { i \in 1..Len(fetched_transcript) :
      Trimmed(fetched_transcript[i].text) # <<>> /\ ~Wrapped(Trimmed(fetched_transcript[i].text)) }

\* some external call failed, or a fetched snippet lacks a field
Failure ==
  \/ \E k \in 1..Len(calls) : ~calls[k].ok
  \/ \E i \in 1..Len(fetched_transcript) : ~WellFormed(fetched_transcript[i])

\* C1: whenever the catalog has a Japanese candidate, the selected track is
\* the first candidate with is_generated false if there is one and the first
\* candidate otherwise, and a found result reports that track's language,
\* languageCode and isGenerated.
C1_SelectsFirstManualElseFirst ==
  (pc \in {"selected", "fetched", "done"} /\ CandidateIdx # {}) =>
    LET want == IF ManualIdx # {} THEN Min(ManualIdx) ELSE Min(CandidateIdx)
    IN /\ selected_transcript = want
       /\ Found => /\ result.language = transcript_list[want].language
                   /\ result.languageCode = transcript_list[want].language_code
                   /\ result.isGenerated = transcript_list[want].is_generated

C1_Witness ==
  /\ Found
  /\ Len(transcript_list) = 2
  /\ CandidateIdx = {1, 2}
  /\ ManualIdx = {2}
  /\ selected_transcript = 2
  /\ result.isGenerated = FALSE

C3_SegmentsAreKeptSnippetsInOrder ==
  Found =>
    /\ Len(result.segments) = Cardinality(KeptIdx)
    /\ \A i \in KeptIdx :
         LET seg == result.segments[Rank(KeptIdx, i)]
             sn == fetched_transcript[i]
         IN /\ seg.text = Trimmed(sn.text)
            /\ seg.start = sn.start
            /\ seg.duration = sn.duration
            /\ seg.end = sn.start + sn.duration
            /\ DOMAIN seg = {"start", "duration", "end", "text"}
    /\ \A k \in 1..Len(result.segments) :
         result.segments[k].text # <<>> /\ ~Wrapped(result.segments[k].text)

C3_Witness ==
  /\ Found
  /\ Len(fetched_transcript) = 2
  /\ fetched_transcript[1].text = T_Music
  /\ fetched_transcript[2].text = T_Partial
  /\ Len(result.segments) = 1
  /\ result.segments[1].text = T_Partial

\* C4: in a found result totalSegments is the number of segments, and
\* totalDuration is 0 when no snippet was kept and otherwise the end of the
\* last kept snippet (the last segment), whether or not it is the largest end.
C4_TotalsMatchSegments ==
  Found =>
    /\ result.totalSegments = Len(result.segments)
    /\ result.segments = <<>> => result.totalDuration = 0
    /\ result.segments # <<>> =>
         result.totalDuration = result.segments[Len(result.segments)].end
    /\ KeptIdx = {} => result.totalDuration = 0
    /\ KeptIdx # {} =>
         result.totalDuration = fetched_transcript[Max(KeptIdx)].start
                                  + fetched_transcript[Max(KeptIdx)].duration

C4_Witness ==
  /\ Found
  /\ Len(result.segments) = 2
  /\ result.segments[1].end = 10000
  /\ result.segments[2].end = 2000
  /\ result.totalDuration = 2000

\* C5: when an external call fails or a snippet lacks a field, the function
\* still returns: a dict with available = false, the given videoId and a
\* message, without segments.
C5_FailuresBecomeNotFound ==
  (Done /\ Failure) =>
    /\ outcome = "returned"
    /\ result.available = FALSE
    /\ result.videoId = video_id
    /\ "message" \in DOMAIN result
    /\ "segments" \notin DOMAIN result

C5_Witness ==
  /\ Returned
  /\ Len(fetched_transcript) = 2
  /\ WellFormed(fetched_transcript[1]) /\ fetched_transcript[1].text = T_Hello
  /\ "text" \notin DOMAIN fetched_transcript[2]
  /\ result.available = FALSE

\* C6: when the catalog lookup raises TranscriptsDisabled, the result has
\* available = false, the message "Transcripts are disabled for this video",
\* no availableLanguages field, and fetch was never called.
C6_DisabledCatalog ==
  (Done /\ Len(calls) >= 1 /\ ~calls[1].ok /\ raised.type = "TranscriptsDisabled") =>
    /\ outcome = "returned"
    /\ result.available = FALSE
    /\ result.videoId = video_id
    /\ result.message = "Transcripts are disabled for this video"
    /\ "availableLanguages" \notin DOMAIN result
    /\ \A k \in 1..Len(calls) : calls[k].op # "fetch"

C6_Witness ==
  /\ Returned
  /\ calls = <<[op |-> "list", ok |-> FALSE]>>
  /\ raised.type = "TranscriptsDisabled"

\* C7 as stated: after a retrieved catalog, a NoTranscriptFound failure yields
\* a result that carries the labels of the whole catalog.
C7_Original_NoTranscriptFoundListsCatalog ==
  (Done /\ CatalogRetrieved /\ raised.type = "NoTranscriptFound") =>
    /\ "availableLanguages" \in DOMAIN result
    /\ Len(result.availableLanguages) = Len(transcript_list)

\* C7 amended: after a retrieved catalog, a NoTranscriptFound failure yields
\* available = false with message "No transcript found: <failure text>" and
\* no availableLanguages field; a result with available = false carries
\* availableLanguages exactly when no failure was raised (the no-Japanese
\* result), never for TranscriptsDisabled, NoTranscriptFound or another error.
C7_FailureResultsCarryNoLanguages ==
  /\ (Done /\ CatalogRetrieved /\ raised.type = "NoTranscriptFound") =>
       /\ outcome = "returned"
       /\ result.available = FALSE
       /\ result.message = "No transcript found: " \o raised.msg
       /\ "availableLanguages" \notin DOMAIN result
  /\ (Returned /\ ~result.available) =>
       ("availableLanguages" \in DOMAIN result <=> raised = NoException)

C7_Witness ==
  /\ Returned
  /\ Len(calls) = 2 /\ calls[1].ok /\ ~calls[2].ok
  /\ Len(transcript_list) >= 2
  /\ raised.type = "NoTranscriptFound"
  /\ "availableLanguages" \notin DOMAIN result

\* C8: in both variants, a failure of list or fetch other than
\* TranscriptsDisabled and NoTranscriptFound yields a result with the
\* failure's message and an error_type naming the failure's type.
C8_GenericErrorCarriesMessageAndType ==
  (Done /\ (\E k \in 1..Len(calls) : ~calls[k].ok)
        /\ raised.type \notin {"TranscriptsDisabled", "NoTranscriptFound"}) =>
    /\ outcome = "returned"
    /\ result.available = FALSE
    /\ result.message = "Error fetching transcript: " \o raised.msg
    /\ "error_type" \in DOMAIN result
    /\ result.error_type = raised.type

\* C9: in a found result availableLanguages has one label per Japanese
\* candidate of the catalog and none for other entries, in catalog order,
\* "{language} (auto)" for a generated track and "{language} (manual)"
\* otherwise, and isJapanese is true.
C9_FoundListsEveryCandidate ==
  Found =>
    /\ result.isJapanese = TRUE
    /\ Len(result.availableLanguages) = Cardinality(CandidateIdx)
    /\ \A i \in CandidateIdx :
         LET l == result.availableLanguages[Rank(CandidateIdx, i)]
             lang == transcript_list[i].language
             suffix == IF transcript_list[i].is_generated
                         THEN <<" ","(","a","u","t","o",")">>
                         ELSE <<" ","(","m","a","n","u","a","l",")">>
         IN /\ Len(l) = Len(lang) + Len(suffix)
            /\ HasAt(l, lang, 1)
            /\ HasAt(l, suffix, Len(lang) + 1)

C9_Witness ==
  /\ Found
  /\ Len(transcript_list) = 2
  /\ transcript_list[1].language = S_Nihongo
  /\ transcript_list[2].language_code = <<"j","a","-","J","P">>
  /\ selected_transcript = 2
  /\ result.availableLanguages =
       << S_Nihongo \o <<" ","(","a","u","t","o",")">>,
          S_Japanese \o <<" ","(","m","a","n","u","a","l",")">> >>

\* C10: list is called exactly once and first; fetch is called at most once,
\* only after list succeeded and a candidate was selected, and on the selected
\* track; no call follows a failed call; the invocation ends in exactly one of
\* found, no-Japanese or failure, and nothing changes after that.
C10_CallOrder ==
  /\ Len(calls) <= 2
  /\ pc # "start" => Len(calls) >= 1
  /\ Len(calls) >= 1 => calls[1].op = "list"
  /\ Len(calls) = 2 =>
       /\ calls[1].ok
       /\ calls[2].op = "fetch"
       /\ CandidateIdx # {}
       /\ selected_transcript \in CandidateIdx
       /\ calls[2].transcript = selected_transcript
  /\ \A k \in 1..Len(calls) : ~calls[k].ok => (k = Len(calls) /\ Done)
  /\ Done =>
       /\ outcome = "returned"
       /\ Cardinality({ x \in {"found", "nojapanese", "failure"} :
            \/ x = "found" /\ result.available /\ raised = NoException
            \/ x = "nojapanese" /\ ~result.available /\ raised = NoException
                                /\ Len(calls) = 1
            \/ x = "failure" /\ ~result.available /\ raised # NoException }) = 1

C10_Terminal == Done => UNCHANGED vars

C10_OneListThenAtMostOneFetch == [](C10_CallOrder) /\ [][C10_Terminal]_vars

C10_Witness ==
  /\ Returned
  /\ Len(calls) = 2
  /\ calls[1].ok /\ ~calls[2].ok
  /\ raised.type = "ConnectionError"

TypeOK ==
  /\ pc \in {"start", "listed", "selected", "fetched", "done"}
  /\ outcome \in {"running", "returned", "propagated"}
  /\ selected_transcript \in 0..Len(transcript_list)

====
